---------------------------- MODULE Spec2Model ----------------------------
(***************************************************************************)
(* A model of the static Huffman codec: the huffman element record, the    *)
(* frequency list, the huffman tree, the bit vector and the encode and     *)
(* decode pipelines of the command line tool.                              *)
(*                                                                         *)
(* Pointers are indices into a heap (a sequence of element records); NULL  *)
(* is 0.  Files are sequences of bytes; offset k of a file is position     *)
(* k + 1 of its sequence.  Strings are sequences of character codes.       *)
(***************************************************************************)
EXTENDS Integers, Sequences, FiniteSets, TLC

(***************************************************************************)
(* Bounds of the model.                                                    *)
(***************************************************************************)
\* Longest input file, in bytes.
MaxLen == 4

\* The byte values an input file is made of: two letters, 0 and the byte
\* that equals LIST_SPECIAL_ELEMENT.
InputBytes == {0, 97, 98, 255}

(***************************************************************************)
(* Program constants.                                                      *)
(***************************************************************************)
NULL == 0
DEFAULT_ELEMENT_FREQUENCY == 1
SPECIAL_ELEMENT_FREQUENCY == 0
LIST_SPECIAL_ELEMENT == 255
TREE_MAX_TABLE_SIZE == 256
\* (uint64_t)-1: a value no element index takes.
TREE_BAD_COUNT == -1
TREE_INPUT_COUNT_OFFSET == 0
TREE_INPUT_COUNT_SIZE == 8
TREE_INPUT_ELEMENT_SIZE == 1
TREE_INPUT_LEAFNODE_SIZE == 1
TREE_INPUT_OBJECT_SIZE == TREE_INPUT_ELEMENT_SIZE + TREE_INPUT_LEAFNODE_SIZE
TREE_INPUT_ROOT_ELEMENT_INDEX == 0
VECTOR_BYTE_SIZE == 8
VECTOR_FLAG_STREAM == 0
VECTOR_FLAG_FULL == 1
CHAR_0 == 48
CHAR_1 == 49

Byte == 0..255

(***************************************************************************)
(* helement_t.  The field `frequency` is a uint64_t: an integer f of the   *)
(* model stands for the value f mod 2^64, so that -1 is the largest        *)
(* frequency and adding 1 to it gives 0, as the unsigned addition of the   *)
(* source does.  Frequencies are compared as the unsigned values they      *)
(* stand for.                                                              *)
(***************************************************************************)
UINT64_MAX == -1

U64LessEq(a, b) == IF (a < 0) = (b < 0) THEN a <= b ELSE a >= 0

helement_create(element, leaf_node_flag, frequency) ==
    [ element     |-> element,
      leaf_node   |-> leaf_node_flag,
      frequency   |-> IF frequency = SPECIAL_ELEMENT_FREQUENCY
                      THEN DEFAULT_ELEMENT_FREQUENCY
                      ELSE frequency,
      left_child  |-> NULL,
      right_child |-> NULL,
      next        |-> NULL,
      previous    |-> NULL ]

\* A helement_swap_list that does not repair the link back from the element
\* that follows the pair.
helement_swap_list_forward(h, first, second) ==
    LET h1 == [h  EXCEPT ![first].next = h[second].next]
        h2 == [h1 EXCEPT ![second].previous = h1[first].previous]
        h3 == [h2 EXCEPT ![second].next = first]
        h4 == [h3 EXCEPT ![first].previous = second]
        h5 == IF h4[second].previous # NULL
              THEN [h4 EXCEPT ![h4[second].previous].next = second]
              ELSE h4
    IN  h5

\* helement_swap_list(first, second): second is first's successor; the
\* assignments are made in the order of the source.
helement_swap_list(h, first, second) ==
    LET h1 == [h  EXCEPT ![first].next = h[second].next]
        h2 == [h1 EXCEPT ![second].previous = h1[first].previous]
        h3 == [h2 EXCEPT ![second].next = first]
        h4 == [h3 EXCEPT ![first].previous = second]
        h5 == IF h4[second].previous # NULL
              THEN [h4 EXCEPT ![h4[second].previous].next = second]
              ELSE h4
        h6 == IF h5[first].next # NULL
              THEN [h5 EXCEPT ![h5[first].next].previous = first]
              ELSE h5
    IN  h6

(***************************************************************************)
(* hlist_t: [list |-> head pointer, count |-> number of elements]          *)
(***************************************************************************)
hlist_create == [list |-> NULL, count |-> 0]

RECURSIVE SearchFrom(_, _, _)
SearchFrom(h, node, element) ==
    IF node = NULL THEN NULL
    ELSE IF h[node].element = element THEN node
    ELSE SearchFrom(h, h[node].next, element)

_search(h, hlist, element) == SearchFrom(h, hlist.list, element)

\* _add: the new element is allocated at the end of the heap and becomes the
\* head of the list.
_add(h, hlist, element, leaf_node_flag, frequency) ==
    LET node == Len(h) + 1
        h1   == Append(h, helement_create(element, leaf_node_flag, frequency))
    IN  IF hlist.list = NULL
        THEN [heap  |-> h1,
              hlist |-> [list |-> node, count |-> hlist.count + 1]]
        ELSE LET temp == hlist.list
                 h2   == [h1 EXCEPT ![temp].previous = node]
                 h3   == [h2 EXCEPT ![node].next = temp]
             IN  [heap  |-> h3,
                  hlist |-> [list |-> node, count |-> hlist.count + 1]]

\* A _fix_order that leaves the element where it is.
_fix_order_in_place(h, hlist, helement_node) ==
    [heap |-> h, hlist |-> hlist]

\* A _fix_order that also moves the element past equal frequencies.
RECURSIVE _fix_order_past_equal(_, _, _)
_fix_order_past_equal(h, hlist, helement_node) ==
    LET next_node == h[helement_node].next
    IN  IF next_node = NULL
        THEN [heap |-> h, hlist |-> hlist]
        ELSE IF ~U64LessEq(h[next_node].frequency, h[helement_node].frequency)
        THEN [heap |-> h, hlist |-> hlist]
        ELSE LET h1 == helement_swap_list(h, helement_node, next_node)
                 l1 == IF hlist.list = helement_node
                       THEN [hlist EXCEPT !.list = next_node]
                       ELSE hlist
             IN  _fix_order_past_equal(h1, l1, helement_node)

RECURSIVE _fix_order(_, _, _)
_fix_order(h, hlist, helement_node) ==
    LET next_node == h[helement_node].next
    IN  IF next_node = NULL
        THEN [heap |-> h, hlist |-> hlist]
        ELSE IF U64LessEq(h[helement_node].frequency, h[next_node].frequency)
        THEN [heap |-> h, hlist |-> hlist]
        ELSE LET h1 == helement_swap_list(h, helement_node, next_node)
                 l1 == IF hlist.list = helement_node
                       THEN [hlist EXCEPT !.list = next_node]
                       ELSE hlist
             IN  _fix_order(h1, l1, helement_node)

hlist_count(hlist) == hlist.count

\* A _remove that leaves the second element linked to the third.
_remove_linked(h, hlist) ==
    IF hlist_count(hlist) < 2
    THEN [heap |-> h, hlist |-> hlist]
    ELSE LET first_temp  == hlist.list
             second_temp == h[first_temp].next
             third_temp  == h[second_temp].next
             h1 == [h  EXCEPT ![first_temp].next = NULL]
             h2 == [h1 EXCEPT ![second_temp].previous = NULL]
             h4 == IF third_temp # NULL
                   THEN [h2 EXCEPT ![third_temp].previous = NULL]
                   ELSE h2
         IN  [heap  |-> h4,
              hlist |-> [list |-> third_temp, count |-> hlist.count - 2]]

\* _remove: detaches the first two elements of the list.
_remove(h, hlist) ==
    IF hlist_count(hlist) < 2
    THEN [heap |-> h, hlist |-> hlist]
    ELSE LET first_temp  == hlist.list
             second_temp == h[first_temp].next
             third_temp  == h[second_temp].next
             h1 == [h  EXCEPT ![first_temp].next = NULL]
             h2 == [h1 EXCEPT ![second_temp].previous = NULL]
             h3 == [h2 EXCEPT ![second_temp].next = NULL]
             h4 == IF third_temp # NULL
                   THEN [h3 EXCEPT ![third_temp].previous = NULL]
                   ELSE h3
         IN  [heap  |-> h4,
              hlist |-> [list |-> third_temp, count |-> hlist.count - 2]]

\* A hlist_add_increment_element that looks for an element 255 before it
\* adds one.
hlist_add_increment_element_coalesce(h, hlist, element, frequency) ==
    LET found == _search(h, hlist, element)
    IN  IF found = NULL
        THEN LET leaf_node_flag == IF element = LIST_SPECIAL_ELEMENT
                                      /\ frequency # SPECIAL_ELEMENT_FREQUENCY
                                   THEN 0 ELSE 1
                 a == _add(h, hlist, element, leaf_node_flag, frequency)
                 f == _fix_order(a.heap, a.hlist, a.hlist.list)
             IN  [heap |-> f.heap, hlist |-> f.hlist, ret |-> a.hlist.list]
        ELSE LET h1 == [h EXCEPT ![found].frequency = @ + 1]
                 f  == _fix_order(h1, hlist, found)
             IN  [heap |-> f.heap, hlist |-> f.hlist, ret |-> found]

\* hlist_add_increment_element: ret is the element created or incremented.
hlist_add_increment_element(h, hlist, element, frequency) ==
    LET special_element == (element = LIST_SPECIAL_ELEMENT
                            /\ frequency # SPECIAL_ELEMENT_FREQUENCY)
        leaf_node_flag  == IF special_element THEN 0 ELSE 1
        found           == _search(h, hlist, element)
    IN  IF found = NULL \/ special_element
        THEN LET a == _add(h, hlist, element, leaf_node_flag, frequency)
                 f == _fix_order(a.heap, a.hlist, a.hlist.list)
             IN  [heap |-> f.heap, hlist |-> f.hlist, ret |-> a.hlist.list]
        ELSE LET h1 == [h EXCEPT ![found].frequency = @ + 1]
                 f  == _fix_order(h1, hlist, found)
             IN  [heap |-> f.heap, hlist |-> f.hlist, ret |-> found]

\* hlist_get_two_min: ret 0 with the two elements, or -2 with the output
\* slots as they were.
hlist_get_two_min(h, hlist, first, second) ==
    LET count == hlist_count(hlist)
    IN  IF count >= 2
        THEN LET f == hlist.list
                 s == h[f].next
                 r == _remove(h, hlist)
             IN  [heap |-> r.heap, hlist |-> r.hlist, ret |-> 0,
                  first |-> f, second |-> s]
        ELSE [heap |-> h, hlist |-> hlist, ret |-> -2,
              first |-> first, second |-> second]

(***************************************************************************)
(* Files.  pwrite past the end of a file leaves a hole of zero bytes; a    *)
(* read at or past the end of a file is short.                             *)
(***************************************************************************)
Max(a, b) == IF a >= b THEN a ELSE b
Min(a, b) == IF a <= b THEN a ELSE b

pwrite(file, data, offset) ==
    LET hole   == [k \in 1..Max(0, offset - Len(file)) |-> 0]
        padded == file \o hole
    IN  SubSeq(padded, 1, offset) \o data
        \o SubSeq(padded, offset + Len(data) + 1, Len(padded))

\* The bytes a pread of `size` bytes at `offset` delivers.
pread(file, size, offset) ==
    SubSeq(file, offset + 1, Min(offset + size, Len(file)))

RECURSIVE Pow(_, _)
Pow(b, e) == IF e = 0 THEN 1 ELSE b * Pow(b, e - 1)

\* A uint64_t as it lies in memory on the little-endian host, and back.
RECURSIVE U64Byte(_, _)
U64Byte(n, k) == IF k = 1 THEN n % 256 ELSE U64Byte(n \div 256, k - 1)

U64ToBytes(n) == [k \in 1..8 |-> U64Byte(n, k)]

RECURSIVE BytesToU64From(_, _)
BytesToU64From(bytes, k) ==
    IF k > Len(bytes) THEN 0
    ELSE bytes[k] + 256 * BytesToU64From(bytes, k + 1)

BytesToU64(bytes) == BytesToU64From(bytes, 1)

(***************************************************************************)
(* htree_t: [root, count, _parsed].  An opcode table is a function from    *)
(* the elements that have an opcode string to that string; an element      *)
(* outside its domain has the NULL entry.                                  *)
(***************************************************************************)
htree_create == [root |-> NULL, count |-> 0, _parsed |-> 0]

EmptyTable == [e \in {} |-> <<>>]

TablePut(table, element, string) ==
    [e \in (DOMAIN table) \cup {element} |->
        IF e = element THEN string ELSE table[e]]

\* _parse with the opcode of the left child appended on the way to the
\* right child as well.
RECURSIVE _parse_one_opcode(_, _, _, _, _)
_parse_one_opcode(h, helement_node, opcode_table, opcode_string, count) ==
    IF h[helement_node].leaf_node # 0
    THEN [table |-> TablePut(opcode_table, h[helement_node].element,
                             opcode_string),
          count |-> count + 1]
    ELSE LET l == IF h[helement_node].left_child # NULL
                  THEN _parse_one_opcode(h, h[helement_node].left_child,
                                         opcode_table,
                                         Append(opcode_string, CHAR_0),
                                         count + 1)
                  ELSE [table |-> opcode_table, count |-> count + 1]
             r == IF h[helement_node].right_child # NULL
                  THEN _parse_one_opcode(h, h[helement_node].right_child,
                                         l.table,
                                         Append(opcode_string, CHAR_0),
                                         l.count)
                  ELSE l
         IN  r

\* _parse: the left subtree is done, and has raised the count, before the
\* right subtree is entered.
RECURSIVE _parse(_, _, _, _, _)
_parse(h, helement_node, opcode_table, opcode_string, count) ==
    IF h[helement_node].leaf_node # 0
    THEN [table |-> TablePut(opcode_table, h[helement_node].element,
                             opcode_string),
          count |-> count + 1]
    ELSE LET l == IF h[helement_node].left_child # NULL
                  THEN _parse(h, h[helement_node].left_child, opcode_table,
                              Append(opcode_string, CHAR_0), count + 1)
                  ELSE [table |-> opcode_table, count |-> count + 1]
             r == IF l.count > count /\ h[helement_node].right_child # NULL
                  THEN _parse(h, h[helement_node].right_child, l.table,
                              Append(opcode_string, CHAR_1), l.count)
                  ELSE l
         IN  r

htree_add_element(htree, helement_node) ==
    IF htree.root = NULL
    THEN [root |-> helement_node, count |-> htree.count + 1, _parsed |-> 0]
    ELSE [htree EXCEPT !._parsed = 0]

\* A htree_connect that never exchanges the two children.
htree_connect_in_order(h, parent, left_child, right_child) ==
    IF parent = NULL THEN [heap |-> h, ret |-> -1]
    ELSE IF h[parent].leaf_node # 0 THEN [heap |-> h, ret |-> -2]
    ELSE [heap |-> [h EXCEPT ![parent].left_child = left_child,
                             ![parent].right_child = right_child],
          ret |-> 0]

\* A htree_connect that always exchanges the two children.
htree_connect_exchanged(h, parent, left_child, right_child) ==
    IF parent = NULL THEN [heap |-> h, ret |-> -1]
    ELSE IF h[parent].leaf_node # 0 THEN [heap |-> h, ret |-> -2]
    ELSE [heap |-> [h EXCEPT ![parent].left_child = right_child,
                             ![parent].right_child = left_child],
          ret |-> 0]

\* htree_connect: ret 0, or -1 / -2 with the parent as it was.
htree_connect(h, parent, left_child, right_child) ==
    IF parent = NULL THEN [heap |-> h, ret |-> -1]
    ELSE IF h[parent].leaf_node # 0 THEN [heap |-> h, ret |-> -2]
    ELSE IF h[right_child].leaf_node # 0
    THEN [heap |-> [h EXCEPT ![parent].left_child = left_child,
                             ![parent].right_child = right_child],
          ret |-> 0]
    ELSE [heap |-> [h EXCEPT ![parent].left_child = right_child,
                             ![parent].right_child = left_child],
          ret |-> 0]

\* htree_parse: ok is FALSE when NULL is returned.
htree_parse(h, htree) ==
    IF htree.root = NULL
    THEN [ok |-> FALSE, htree |-> htree, table |-> EmptyTable]
    ELSE LET p == _parse(h, htree.root, EmptyTable, <<>>, 0)
         IN  [ok    |-> TRUE,
              htree |-> [htree EXCEPT !._parsed = 1, !.count = p.count],
              table |-> p.table]

RECURSIVE _output(_, _, _, _)
_output(h, helement_node, file, offset) ==
    LET f1 == pwrite(file, <<h[helement_node].element>>, offset)
        f2 == pwrite(f1, <<h[helement_node].leaf_node>>, offset + 1)
        l  == IF h[helement_node].left_child # NULL
              THEN _output(h, h[helement_node].left_child, f2, offset + 2)
              ELSE [file |-> f2, ret |-> offset + 2]
        r  == IF l.ret = -1 THEN l
              ELSE IF h[helement_node].right_child # NULL
              THEN _output(h, h[helement_node].right_child, l.file, l.ret)
              ELSE l
    IN  r

\* An htree_output that does not look at _parsed.
htree_output_unchecked(h, htree, file, pos, offset) ==
    IF htree.count < 1 THEN [file |-> file, ret |-> -3]
    ELSE _output(h, htree.root, pwrite(file, U64ToBytes(htree.count), pos),
                 offset + TREE_INPUT_COUNT_SIZE)

\* htree_output: the count goes out with write(), at the position `pos` of
\* the descriptor; the elements with pwrite() from offset + 8.
htree_output(h, htree, file, pos, offset) ==
    IF htree._parsed = 0 THEN [file |-> file, ret |-> -2]
    ELSE IF htree.count < 1 THEN [file |-> file, ret |-> -3]
    ELSE _output(h, htree.root, pwrite(file, U64ToBytes(htree.count), pos),
                 offset + TREE_INPUT_COUNT_SIZE)

TREE_INPUT_OBJECT_OFFSET(element) ==
    TREE_INPUT_COUNT_OFFSET + TREE_INPUT_COUNT_SIZE
        + (element * TREE_INPUT_OBJECT_SIZE)
TREE_INPUT_ELEMENT_OFFSET(element) == TREE_INPUT_OBJECT_OFFSET(element)
TREE_INPUT_LEAFNODE_OFFSET(element) ==
    TREE_INPUT_OBJECT_OFFSET(element) + TREE_INPUT_LEAFNODE_SIZE

\* _input_object: ok is FALSE when NULL is returned.
_input_object(file, index) ==
    LET e == pread(file, TREE_INPUT_ELEMENT_SIZE,
                   TREE_INPUT_ELEMENT_OFFSET(index))
        l == pread(file, TREE_INPUT_LEAFNODE_SIZE,
                   TREE_INPUT_LEAFNODE_OFFSET(index))
    IN  IF Len(e) < TREE_INPUT_ELEMENT_SIZE \/ Len(l) < TREE_INPUT_LEAFNODE_SIZE
        THEN [ok |-> FALSE, elem |-> helement_create(0, 0, 0)]
        ELSE [ok |-> TRUE,
              elem |-> helement_create(e[1], l[1], SPECIAL_ELEMENT_FREQUENCY)]

\* _input with the right child taken from the index after the left child,
\* whatever the left subtree holds.
RECURSIVE _input_right_after_left(_, _, _, _, _)
_input_right_after_left(file, h, helement_node, index, leaf_flag) ==
    IF leaf_flag # 0 THEN [heap |-> h, ret |-> index]
    ELSE
    LET leftc_index == index + 1
        lo == _input_object(file, leftc_index)
    IN  IF ~lo.ok THEN [heap |-> h, ret |-> TREE_BAD_COUNT]
        ELSE
        LET left_child == Len(h) + 1
            h1 == [Append(h, lo.elem) EXCEPT
                       ![helement_node].left_child = left_child]
            l  == _input_right_after_left(file, h1, left_child, leftc_index,
                                          lo.elem.leaf_node)
        IN  IF l.ret = TREE_BAD_COUNT
            THEN [heap |-> l.heap, ret |-> TREE_BAD_COUNT]
            ELSE
            LET rightc_index == leftc_index + 1
                ro == _input_object(file, rightc_index)
            IN  IF ~ro.ok THEN [heap |-> l.heap, ret |-> TREE_BAD_COUNT]
                ELSE
                LET right_child == Len(l.heap) + 1
                    h2 == [Append(l.heap, ro.elem) EXCEPT
                               ![helement_node].right_child = right_child]
                IN  _input_right_after_left(file, h2, right_child,
                                            rightc_index, ro.elem.leaf_node)

\* _input: the elements read are allocated at the end of the heap; what was
\* attached before a failed read stays attached.
RECURSIVE _input(_, _, _, _, _)
_input(file, h, helement_node, index, leaf_flag) ==
    IF leaf_flag # 0 THEN [heap |-> h, ret |-> index]
    ELSE
    LET leftc_index == index + 1
        lo == _input_object(file, leftc_index)
    IN  IF ~lo.ok THEN [heap |-> h, ret |-> TREE_BAD_COUNT]
        ELSE
        LET left_child == Len(h) + 1
            h1 == [Append(h, lo.elem) EXCEPT
                       ![helement_node].left_child = left_child]
            l  == _input(file, h1, left_child, leftc_index, lo.elem.leaf_node)
        IN  IF l.ret = TREE_BAD_COUNT
            THEN [heap |-> l.heap, ret |-> TREE_BAD_COUNT]
            ELSE
            LET rightc_index == l.ret + 1
                ro == _input_object(file, rightc_index)
            IN  IF ~ro.ok THEN [heap |-> l.heap, ret |-> TREE_BAD_COUNT]
                ELSE
                LET right_child == Len(l.heap) + 1
                    h2 == [Append(l.heap, ro.elem) EXCEPT
                               ![helement_node].right_child = right_child]
                IN  _input(file, h2, right_child, rightc_index,
                           ro.elem.leaf_node)

\* htree_input: ok is FALSE when NULL is returned.  The root is handed to
\* _input with ROOT_LEAF_FLAG = 0 and the value _input returns is dropped.
htree_input(file) ==
    LET c  == pread(file, TREE_INPUT_COUNT_SIZE, 0)
        ro == _input_object(file, TREE_INPUT_ROOT_ELEMENT_INDEX)
    IN  IF Len(c) < TREE_INPUT_COUNT_SIZE \/ ~ro.ok
        THEN [ok |-> FALSE, heap |-> <<>>, htree |-> htree_create]
        ELSE LET r == _input(file, <<ro.elem>>, 1,
                             TREE_INPUT_ROOT_ELEMENT_INDEX, 0)
             IN  [ok    |-> TRUE,
                  heap  |-> r.heap,
                  htree |-> [root |-> 1, count |-> BytesToU64(c),
                             _parsed |-> 0]]

\* A htree_state_step that stays on the leaf it has reached.
htree_state_step_stay(h, htree, helement_node, element, opcode) ==
    IF helement_node = NULL \/ opcode > 1 \/ opcode < 0
    THEN [ok |-> FALSE, fault |-> FALSE, node |-> NULL, element |-> element]
    ELSE LET child == IF opcode = 0 THEN h[helement_node].left_child
                      ELSE h[helement_node].right_child
         IN  IF child = NULL
             THEN [ok |-> FALSE, fault |-> TRUE, node |-> NULL,
                   element |-> element]
             ELSE IF h[child].leaf_node # 0
             THEN [ok |-> TRUE, fault |-> FALSE, node |-> child,
                   element |-> h[child].element]
             ELSE [ok |-> TRUE, fault |-> FALSE, node |-> child,
                   element |-> -1]

\* htree_state_step.  ok is FALSE when NULL is returned, and then *element
\* is left as it was; fault is TRUE when the step dereferences a NULL child.
htree_state_step(h, htree, helement_node, element, opcode) ==
    IF helement_node = NULL \/ opcode > 1 \/ opcode < 0
    THEN [ok |-> FALSE, fault |-> FALSE, node |-> NULL, element |-> element]
    ELSE LET child == IF opcode = 0 THEN h[helement_node].left_child
                      ELSE h[helement_node].right_child
         IN  IF child = NULL
             THEN [ok |-> FALSE, fault |-> TRUE, node |-> NULL,
                   element |-> element]
             ELSE IF h[child].leaf_node # 0
             THEN [ok |-> TRUE, fault |-> FALSE, node |-> htree.root,
                   element |-> h[child].element]
             ELSE [ok |-> TRUE, fault |-> FALSE, node |-> child,
                   element |-> -1]

(***************************************************************************)
(* bvector_t: [vector, vector_length, working_index]; vector is the byte   *)
(* array.  realloc leaves the bytes it adds indeterminate: `junk` is the   *)
(* value such a byte holds.                                                *)
(***************************************************************************)
UninitBytes == {0, 255}

VECTOR_BYTE_INDEX(index) == index \div VECTOR_BYTE_SIZE
VECTOR_BIT_INDEX(index) == index % 8
BitOf(byte, k) == (byte \div Pow(2, k)) % 2
OrMask(byte, k) == IF BitOf(byte, k) = 1 THEN byte ELSE byte + Pow(2, k)
AndNotMask(byte, k) == IF BitOf(byte, k) = 1 THEN byte - Pow(2, k) ELSE byte

NoVector == [vector |-> <<>>, vector_length |-> 0, working_index |-> 0]

\* bvector_create: ok is FALSE when NULL is returned.
bvector_create(length) ==
    IF length = 0 THEN [ok |-> FALSE, bv |-> NoVector]
    ELSE [ok |-> TRUE,
          bv |-> [vector |-> [k \in 1..((length \div VECTOR_BYTE_SIZE) + 1)
                                 |-> 0],
                  vector_length |-> length,
                  working_index |-> 0]]

bvector_set_bit(bv, index) ==
    IF index >= bv.vector_length THEN [ok |-> FALSE, bv |-> bv]
    ELSE [ok |-> TRUE,
          bv |-> [bv EXCEPT !.vector[VECTOR_BYTE_INDEX(index) + 1] =
                                OrMask(@, VECTOR_BIT_INDEX(index))]]

bvector_clear_bit(bv, index) ==
    IF index >= bv.vector_length THEN [ok |-> FALSE, bv |-> bv]
    ELSE [ok |-> TRUE,
          bv |-> [bv EXCEPT !.vector[VECTOR_BYTE_INDEX(index) + 1] =
                                AndNotMask(@, VECTOR_BIT_INDEX(index))]]

bvector_check_bit(bv, index) ==
    IF index >= bv.vector_length THEN -2
    ELSE BitOf(bv.vector[VECTOR_BYTE_INDEX(index) + 1],
               VECTOR_BIT_INDEX(index))

bvector_get_size(bv, flag) ==
    IF flag = VECTOR_FLAG_FULL THEN bv.vector_length
    ELSE IF flag = VECTOR_FLAG_STREAM THEN bv.working_index
    ELSE 0

\* A resize that hands back fresh memory and copies nothing.
bvector_resize_fresh(bv, length, junk) ==
    [bv EXCEPT !.vector_length = length,
               !.vector = [k \in 1..((length \div VECTOR_BYTE_SIZE) + 1) |->
                              junk]]

bvector_resize(bv, length, junk) ==
    [bv EXCEPT !.vector_length = length,
               !.vector = [k \in 1..((length \div VECTOR_BYTE_SIZE) + 1) |->
                              IF k <= Len(bv.vector) THEN bv.vector[k]
                              ELSE junk]]

\* bvector_append_bit: ok is FALSE when NULL is returned.
bvector_append_bit(bv, bit, junk) ==
    IF bit > 1 THEN [ok |-> FALSE, bv |-> bv]
    ELSE LET b1 == IF bv.working_index = bv.vector_length
                   THEN bvector_resize(bv, bv.vector_length * 2, junk)
                   ELSE bv
             b2 == IF bit = 0
                   THEN bvector_clear_bit(b1, b1.working_index).bv
                   ELSE bvector_set_bit(b1, b1.working_index).bv
         IN  [ok |-> TRUE,
              bv |-> [b2 EXCEPT !.working_index = @ + 1]]

\* The int8_t that bvector_check_bit returns, stored in a uint8_t.
ToUint8(v) == v % 256

RECURSIVE AppendVectorFrom(_, _, _, _, _)
AppendVectorFrom(bv, copy_vector, i, append_length, junk) ==
    IF i >= append_length THEN bv
    ELSE AppendVectorFrom(
             bvector_append_bit(bv, ToUint8(bvector_check_bit(copy_vector, i)),
                                junk).bv,
             copy_vector, i + 1, append_length, junk)

bvector_append_vector(bv, copy_vector, flag, junk) ==
    AppendVectorFrom(bv, copy_vector, 0, bvector_get_size(copy_vector, flag),
                     junk)

\* bvector_output: the header, then (length / 8) + 1 bytes of the array; a
\* byte taken past the end of the array is indeterminate.
\* A bvector_output that writes one byte of the vector fewer.
bvector_output_short(bv, file, offset, flag, junk) ==
    LET length == bvector_get_size(bv, flag)
        f1     == pwrite(file, U64ToBytes(length), offset)
        n      == length \div VECTOR_BYTE_SIZE
        data   == [k \in 1..n |-> IF k <= Len(bv.vector) THEN bv.vector[k]
                                  ELSE junk]
    IN  [file |-> pwrite(f1, data, offset + 8), ret |-> offset + 8 + n]

bvector_output(bv, file, offset, flag, junk) ==
    LET length == bvector_get_size(bv, flag)
        f1     == pwrite(file, U64ToBytes(length), offset)
        n      == (length \div VECTOR_BYTE_SIZE) + 1
        data   == [k \in 1..n |-> IF k <= Len(bv.vector) THEN bv.vector[k]
                                  ELSE junk]
    IN  [file |-> pwrite(f1, data, offset + 8), ret |-> offset + 8 + n]

\* bvector_input: ok is FALSE when NULL is returned.
bvector_input(file, offset) ==
    LET hdr == pread(file, 8, offset)
    IN  IF Len(hdr) < 8 THEN [ok |-> FALSE, bv |-> NoVector]
        ELSE
        LET length == BytesToU64(hdr)
            c      == bvector_create(length)
            n      == (length \div VECTOR_BYTE_SIZE) + 1
            data   == pread(file, n, offset + 8)
        IN  IF ~c.ok \/ Len(data) < n THEN [ok |-> FALSE, bv |-> NoVector]
            ELSE [ok |-> TRUE,
                  bv |-> [vector |-> data, vector_length |-> length,
                          working_index |-> length]]

RECURSIVE ConvertFrom(_, _, _, _)
ConvertFrom(bv, bit_string, i, junk) ==
    IF i > Len(bit_string) THEN bv
    ELSE IF bit_string[i] = CHAR_0
    THEN ConvertFrom(bvector_append_bit(bv, 0, junk).bv, bit_string, i + 1,
                     junk)
    ELSE IF bit_string[i] = CHAR_1
    THEN ConvertFrom(bvector_append_bit(bv, 1, junk).bv, bit_string, i + 1,
                     junk)
    ELSE ConvertFrom(bv, bit_string, i + 1, junk)

\* bvector_convert: ok is FALSE when NULL is returned.
bvector_convert(bit_string, junk) ==
    LET c == bvector_create(Len(bit_string))
    IN  IF ~c.ok THEN [ok |-> FALSE, bv |-> NoVector]
        ELSE LET t == ConvertFrom(c.bv, bit_string, 1, junk)
             IN  [ok |-> TRUE, bv |-> bvector_resize(t, t.working_index, junk)]

\* array_append: the destination with the source after it.
array_append(dest, src) == dest \o src

(***************************************************************************)
(* The program: huffman_encode on the input file, then huffman_decode on   *)
(* the file the encoder wrote.                                             *)
(***************************************************************************)
VARIABLES
    pc,                  \* where the program is
    ascii_set,           \* FLAG_ASCII of the flags vector: 0 or 1
    input,               \* the bytes of the input file
    in_pos,              \* how many bytes the reading descriptor has passed
    heap,                \* the encoder's elements
    distribution_list,   \* encoder: the frequency list
    parent,              \* encoder: the element made by the last merge
    distribution_tree,   \* encoder: the tree
    ascii_opcode_table,  \* encoder: element -> opcode string
    vector_opcode_table, \* encoder: element -> opcode vector
    vector_opcodes,      \* encoder: the opcodes of the whole file, as bits
    ascii_opcodes,       \* encoder: the opcodes of the whole file, as text
    offset,              \* encoder and decoder: where the opcodes start
    artifact,            \* the file the encoder writes and the decoder reads
    tampered,            \* whether the file was changed after it was written
    dheap,               \* the decoder's elements
    constructed_tree,    \* decoder: the tree read from the file
    d_vector_opcodes,    \* decoder: the opcodes read, as bits
    d_ascii_opcodes,     \* decoder: the opcodes read, as text
    opcode_loop_size,    \* decoder: the number of opcodes
    temp_ptr,            \* decoder: the element the walk is at
    decoded_element,     \* decoder: what the last step handed out
    i,                   \* decoder: the index of the next opcode
    decoded_string,      \* decoder: the bytes decoded so far
    output,              \* the file the decoder writes
    bv_pc,               \* bit vector use: where it is
    bv,                  \* bit vector use: the vector
    appended,            \* bit vector use: the bits appended, in order
    bv_offset,           \* bit vector use: the offset it is written at
    bv_file,             \* bit vector use: the file it is written to
    bv_read,             \* bit vector use: the vector read back
    bv_flag,             \* bit vector use: the flag of bvector_output
    bv_ret,              \* bit vector use: what bvector_output returned
    theap,               \* tree use: the elements allocated
    ttree,               \* tree use: the tree
    tfile,               \* tree use: the file of the last htree_output
    t_offset,            \* tree use: the offset of the last htree_output
    tret,                \* tree use: what the last htree_output returned
    t_last,              \* tree use: the last call
    t_mutated,           \* tree use: changed since the last htree_parse
    t_args,              \* tree use: parent, left_child and right_child
                         \* of the last htree_connect
    lheap,               \* list use: the elements allocated
    lhlist,              \* list use: the list
    l_first,             \* list use: the slot `first` of the caller
    l_second,            \* list use: the slot `second` of the caller
    l_ret,               \* list use: what the last call returned
    l_last,              \* list use: the last call
    l_calls,             \* list use: number of calls made
    l_wrapped,           \* list use: a frequency was incremented past
                         \* UINT64_MAX
    l_args,              \* list use: element and frequency of the last
                         \* hlist_add_increment_element
    cv,                  \* vector calls: the vector
    c_last,              \* vector calls: the last call
    c_string,            \* vector calls: the string of bvector_convert
    c_bit,               \* vector calls: the bit of the last
                         \* bvector_append_bit
    c_calls              \* vector calls: number of calls after the first

encVars == <<heap, distribution_list, parent, distribution_tree,
             ascii_opcode_table, vector_opcode_table, vector_opcodes,
             ascii_opcodes>>
decVars == <<dheap, constructed_tree, d_vector_opcodes, d_ascii_opcodes,
             opcode_loop_size, temp_ptr, decoded_element, i, decoded_string,
             output>>
progVars == <<pc, ascii_set, input, in_pos, encVars, offset, artifact,
              tampered, decVars>>
bvVars == <<bv_pc, bv, appended, bv_offset, bv_file, bv_read, bv_flag,
           bv_ret>>
treeVars == <<theap, ttree, tfile, t_offset, tret, t_last, t_mutated,
             t_args>>
listVars == <<lheap, lhlist, l_first, l_second, l_ret, l_last, l_calls,
             l_wrapped, l_args>>

\* The variables the program does not touch.
cvVars == <<cv, c_last, c_string, c_bit, c_calls>>
apiVars == <<bvVars, treeVars, listVars, cvVars>>
\* The variables a use of the bit vector, of the tree, of the list does not
\* touch.
bvFrame == <<progVars, treeVars, listVars, cvVars>>
treeFrame == <<progVars, bvVars, listVars, cvVars>>
listFrame == <<progVars, bvVars, treeVars, cvVars>>
cvFrame == <<progVars, bvVars, treeVars, listVars>>

\* A pointer that is not NULL and points at no element.
WILD == -1
\* The value of a local that was declared and never assigned.
INDETERMINATE == -2

\* What a read of an indeterminate pointer can deliver.
IndeterminatePointers(h) == {NULL, WILD} \cup (1..Len(h))

RECURSIVE SeqsUpTo(_, _)
SeqsUpTo(S, n) ==
    IF n = 0 THEN {<<>>}
    ELSE LET shorter == SeqsUpTo(S, n - 1)
         IN  shorter \cup {Append(q, x) : q \in shorter, x \in S}

\* main, about to encode one of the files `inputs`, in either mode.
InitProgramOn(inputs) ==
    /\ pc = "enc_count"
    /\ ascii_set \in {0, 1}
    /\ input \in inputs
    /\ in_pos = 0
    /\ heap = <<>>
    /\ distribution_list = hlist_create
    /\ parent = INDETERMINATE
    /\ distribution_tree = htree_create
    /\ ascii_opcode_table = EmptyTable
    /\ vector_opcode_table = EmptyTable
    /\ vector_opcodes = NoVector
    /\ ascii_opcodes = <<>>
    /\ offset = 0
    /\ artifact = <<>>
    /\ tampered = FALSE
    /\ dheap = <<>>
    /\ constructed_tree = htree_create
    /\ d_vector_opcodes = NoVector
    /\ d_ascii_opcodes = <<>>
    /\ opcode_loop_size = 0
    /\ temp_ptr = NULL
    /\ decoded_element = -1
    /\ i = 0
    /\ decoded_string = <<>>
    /\ output = <<>>

InitProgram(maxlen) == InitProgramOn(SeqsUpTo(InputBytes, maxlen))

\* huffman_encode, first loop: one byte of the input goes into the list.
EncCount ==
    /\ pc = "enc_count"
    /\ in_pos < Len(input)
    /\ LET r == hlist_add_increment_element(heap, distribution_list,
                                            input[in_pos + 1],
                                            SPECIAL_ELEMENT_FREQUENCY)
       IN  /\ heap' = r.heap
           /\ distribution_list' = r.hlist
    /\ in_pos' = in_pos + 1
    /\ UNCHANGED <<pc, ascii_set, input, parent, distribution_tree,
                   ascii_opcode_table, vector_opcode_table, vector_opcodes,
                   ascii_opcodes, offset, artifact, tampered, decVars>>
    /\ UNCHANGED apiVars

\* The read that returns 0 ends the first loop.
EncCountEnd ==
    /\ pc = "enc_count"
    /\ in_pos = Len(input)
    /\ pc' = "enc_merge"
    /\ UNCHANGED <<ascii_set, input, in_pos, encVars, offset, artifact,
                   tampered, decVars>>
    /\ UNCHANGED apiVars

\* One turn of the merge loop: the two minima leave the list, an element
\* with their combined frequency enters it and becomes their parent.
EncMerge ==
    /\ pc = "enc_merge"
    /\ LET g == hlist_get_two_min(heap, distribution_list, NULL, NULL)
       IN  /\ g.ret >= 0
           /\ LET combined_frequency == g.heap[g.first].frequency
                                        + g.heap[g.second].frequency
                  a == hlist_add_increment_element(g.heap, g.hlist,
                                                   LIST_SPECIAL_ELEMENT,
                                                   combined_frequency)
                  c == htree_connect(a.heap, a.ret, g.first, g.second)
              IN  /\ heap' = c.heap
                  /\ distribution_list' = a.hlist
                  /\ parent' = a.ret
                  /\ pc' = IF c.ret # 0 THEN "enc_error" ELSE "enc_merge"
    /\ UNCHANGED <<ascii_set, input, in_pos, distribution_tree,
                   ascii_opcode_table, vector_opcode_table, vector_opcodes,
                   ascii_opcodes, offset, artifact, tampered, decVars>>
    /\ UNCHANGED apiVars

\* hlist_get_two_min fails: the loop ends and `parent` is made the root of
\* a new tree.  When the loop never ran `parent` was never assigned.
EncAddRoot ==
    /\ pc = "enc_merge"
    /\ hlist_get_two_min(heap, distribution_list, NULL, NULL).ret < 0
    /\ \E p \in (IF parent = INDETERMINATE THEN IndeterminatePointers(heap)
                 ELSE {parent}) :
          /\ parent' = p
          /\ distribution_tree' = htree_add_element(htree_create, p)
          /\ pc' = IF p = NULL THEN "enc_error" ELSE "enc_parse"
    /\ UNCHANGED <<ascii_set, input, in_pos, heap, distribution_list,
                   ascii_opcode_table, vector_opcode_table, vector_opcodes,
                   ascii_opcodes, offset, artifact, tampered, decVars>>
    /\ UNCHANGED apiVars

\* htree_parse of the tree; a root that points at no element faults.
EncParse ==
    /\ pc = "enc_parse"
    /\ IF distribution_tree.root = WILD
       THEN /\ pc' = "enc_fault"
            /\ UNCHANGED <<distribution_tree, ascii_opcode_table>>
       ELSE LET r == htree_parse(heap, distribution_tree)
            IN  /\ distribution_tree' = r.htree
                /\ ascii_opcode_table' = r.table
                /\ pc' = IF ~r.ok THEN "enc_error"
                         ELSE IF ascii_set = 0 THEN "enc_convert"
                         ELSE "enc_output"
    /\ UNCHANGED <<ascii_set, input, in_pos, heap, distribution_list, parent,
                   vector_opcode_table, vector_opcodes, ascii_opcodes, offset,
                   artifact, tampered, decVars>>
    /\ UNCHANGED apiVars

\* Bit mode: the stream vector is created and every opcode string of the
\* table is converted to a vector.
EncConvert ==
    /\ pc = "enc_convert"
    /\ \E junk \in UninitBytes :
          LET conv == [e \in DOMAIN ascii_opcode_table |->
                          bvector_convert(ascii_opcode_table[e], junk)]
          IN  IF \E e \in DOMAIN conv : ~conv[e].ok
              THEN /\ pc' = "enc_error"
                   /\ vector_opcodes' = bvector_create(1).bv
                   /\ UNCHANGED vector_opcode_table
              ELSE /\ pc' = "enc_output"
                   /\ vector_opcodes' = bvector_create(1).bv
                   /\ vector_opcode_table' = [e \in DOMAIN conv |-> conv[e].bv]
    /\ UNCHANGED <<ascii_set, input, in_pos, heap, distribution_list, parent,
                   distribution_tree, ascii_opcode_table, ascii_opcodes,
                   offset, artifact, tampered, decVars>>
    /\ UNCHANGED apiVars

\* htree_output at offset 0 of the new output file; the input file is
\* opened again.
EncOutput ==
    /\ pc = "enc_output"
    /\ LET r == htree_output(heap, distribution_tree, artifact, 0, 0)
       IN  /\ artifact' = r.file
           /\ offset' = r.ret
           /\ pc' = IF r.ret < 0 THEN "enc_error" ELSE "enc_emit"
    /\ in_pos' = 0
    /\ UNCHANGED <<ascii_set, input, encVars, tampered, decVars>>
    /\ UNCHANGED apiVars

\* Second loop: the opcode of one byte of the input is appended.
EncEmit ==
    /\ pc = "enc_emit"
    /\ in_pos < Len(input)
    /\ LET element == input[in_pos + 1]
       IN  IF ascii_set = 1
           THEN /\ element \in DOMAIN ascii_opcode_table
                /\ ascii_opcodes' = array_append(ascii_opcodes,
                                                 ascii_opcode_table[element])
                /\ UNCHANGED vector_opcodes
           ELSE /\ element \in DOMAIN vector_opcode_table
                /\ \E junk \in UninitBytes :
                      vector_opcodes' =
                          bvector_append_vector(vector_opcodes,
                                                vector_opcode_table[element],
                                                VECTOR_FLAG_FULL, junk)
                /\ UNCHANGED ascii_opcodes
    /\ in_pos' = in_pos + 1
    /\ UNCHANGED <<pc, ascii_set, input, heap, distribution_list, parent,
                   distribution_tree, ascii_opcode_table, vector_opcode_table,
                   offset, artifact, tampered, decVars>>
    /\ UNCHANGED apiVars

\* The opcodes are written after the tree and huffman_encode returns 0.
EncWrite ==
    /\ pc = "enc_emit"
    /\ in_pos = Len(input)
    /\ IF ascii_set = 0
       THEN \E junk \in UninitBytes :
               artifact' = bvector_output(vector_opcodes, artifact, offset,
                                          VECTOR_FLAG_STREAM, junk).file
       ELSE artifact' = pwrite(artifact, ascii_opcodes, offset)
    /\ pc' = "enc_done"
    /\ UNCHANGED <<ascii_set, input, in_pos, encVars, offset, tampered,
                   decVars>>
    /\ UNCHANGED apiVars

\* huffman_decode: htree_input, then the offset of the opcodes.
DecInput ==
    /\ pc = "enc_done"
    /\ LET r == htree_input(artifact)
       IN  /\ dheap' = r.heap
           /\ constructed_tree' = r.htree
           /\ offset' = IF r.ok THEN TREE_INPUT_OBJECT_OFFSET(r.htree.count)
                        ELSE offset
           /\ pc' = IF r.ok THEN "dec_body" ELSE "dec_error"
    /\ UNCHANGED <<ascii_set, input, in_pos, encVars, artifact, tampered,
                   d_vector_opcodes, d_ascii_opcodes, opcode_loop_size,
                   temp_ptr, decoded_element, i, decoded_string, output>>
    /\ UNCHANGED apiVars

\* The opcodes are read: a bit vector, or every byte up to the end of file.
DecBody ==
    /\ pc = "dec_body"
    /\ IF ascii_set = 0
       THEN LET r == bvector_input(artifact, offset)
            IN  /\ d_vector_opcodes' = r.bv
                /\ opcode_loop_size' = bvector_get_size(r.bv,
                                                        VECTOR_FLAG_STREAM)
                /\ pc' = IF r.ok THEN "dec_step" ELSE "dec_error"
                /\ UNCHANGED d_ascii_opcodes
       ELSE LET body == SubSeq(artifact, offset + 1, Len(artifact))
            IN  /\ d_ascii_opcodes' = body
                /\ opcode_loop_size' = Len(body)
                /\ pc' = "dec_step"
                /\ UNCHANGED d_vector_opcodes
    /\ temp_ptr' = constructed_tree.root
    /\ decoded_element' = -1
    /\ decoded_string' = <<>>
    /\ i' = 0
    /\ UNCHANGED <<ascii_set, input, in_pos, encVars, offset, artifact,
                   tampered, dheap, constructed_tree, output>>
    /\ UNCHANGED apiVars

\* One opcode: htree_state_step, and the byte is appended when
\* decoded_element is not negative after the call.
DecStep ==
    /\ pc = "dec_step"
    /\ i < opcode_loop_size
    /\ LET opcode == IF ascii_set # 0 THEN d_ascii_opcodes[i + 1] - 48
                     ELSE bvector_check_bit(d_vector_opcodes, i)
           r      == htree_state_step(dheap, constructed_tree, temp_ptr,
                                      decoded_element, opcode)
       IN  IF r.fault
           THEN /\ pc' = "dec_fault"
                /\ UNCHANGED <<temp_ptr, decoded_element, decoded_string, i>>
           ELSE /\ temp_ptr' = r.node
                /\ decoded_element' = r.element
                /\ decoded_string' = IF r.element >= 0
                                     THEN array_append(decoded_string,
                                                       <<r.element % 256>>)
                                     ELSE decoded_string
                /\ i' = i + 1
                /\ pc' = pc
    /\ UNCHANGED <<ascii_set, input, in_pos, encVars, offset, artifact,
                   tampered, dheap, constructed_tree, d_vector_opcodes,
                   d_ascii_opcodes, opcode_loop_size, output>>
    /\ UNCHANGED apiVars

\* The decoded bytes are written and huffman_decode returns 0.
DecWrite ==
    /\ pc = "dec_step"
    /\ i = opcode_loop_size
    /\ output' = decoded_string
    /\ pc' = "dec_done"
    /\ UNCHANGED <<ascii_set, input, in_pos, encVars, offset, artifact,
                   tampered, dheap, constructed_tree, d_vector_opcodes,
                   d_ascii_opcodes, opcode_loop_size, temp_ptr,
                   decoded_element, i, decoded_string>>
    /\ UNCHANGED apiVars



\* The file is cut short, as by an interrupted copy, before it is decoded.
Truncate ==
    /\ pc = "enc_done"
    /\ ~tampered
    /\ \E k \in 0..(Len(artifact) - 1) : artifact' = SubSeq(artifact, 1, k)
    /\ tampered' = TRUE
    /\ UNCHANGED <<pc, ascii_set, input, in_pos, encVars, offset, decVars>>
    /\ UNCHANGED apiVars

\* Characters that are neither '0' nor '1': '/' and '2'.
OtherChars == {47, 50}

\* One character of a text mode body is replaced before the file is decoded.
CorruptChar ==
    /\ pc = "enc_done"
    /\ ~tampered
    /\ ascii_set = 1
    /\ \E k \in (offset + 1)..Len(artifact) : \E c \in OtherChars :
          artifact' = [artifact EXCEPT ![k] = c]
    /\ tampered' = TRUE
    /\ UNCHANGED <<pc, ascii_set, input, in_pos, encVars, offset, decVars>>
    /\ UNCHANGED apiVars

(***************************************************************************)
(* Use of a bit vector: created, bits appended, written in STREAM or FULL  *)
(* mode and, when written in STREAM mode, read back.                       *)
(***************************************************************************)
\* Largest length a vector is created with.
MaxCreate == 3
\* Most bits appended to a vector.
MaxAppend == 9
\* Largest file offset a vector is written at.
MaxOffset == 1

BvCreate ==
    /\ bv_pc = "none"
    /\ \E length \in 1..MaxCreate : bv' = bvector_create(length).bv
    /\ bv_pc' = "created"
    /\ UNCHANGED <<appended, bv_offset, bv_file, bv_read, bv_flag, bv_ret>>
    /\ UNCHANGED bvFrame

BvAppendBit ==
    /\ bv_pc = "created"
    /\ Len(appended) < MaxAppend
    /\ \E bit \in {0, 1} : \E junk \in UninitBytes :
          /\ bv' = bvector_append_bit(bv, bit, junk).bv
          /\ appended' = Append(appended, bit)
    /\ UNCHANGED <<bv_pc, bv_offset, bv_file, bv_read, bv_flag, bv_ret>>
    /\ UNCHANGED bvFrame

\* bvector_output to a file just created, in STREAM or in FULL mode; only
\* a file written in STREAM mode is read back.
BvOutput ==
    /\ bv_pc = "created"
    /\ \E off \in 0..MaxOffset : \E junk \in UninitBytes :
       \E flag \in {VECTOR_FLAG_STREAM, VECTOR_FLAG_FULL} :
          LET r == bvector_output(bv, <<>>, off, flag, junk)
          IN  /\ bv_offset' = off
              /\ bv_flag' = flag
              /\ bv_file' = r.file
              /\ bv_ret' = r.ret
              /\ bv_pc' = IF flag = VECTOR_FLAG_STREAM THEN "written"
                          ELSE "written_full"
    /\ UNCHANGED <<bv, appended, bv_read>>
    /\ UNCHANGED bvFrame

BvInput ==
    /\ bv_pc = "written"
    /\ LET r == bvector_input(bv_file, bv_offset)
       IN  /\ bv_read' = r.bv
           /\ bv_pc' = IF r.ok THEN "read" ELSE "read_null"
    /\ UNCHANGED <<bv, appended, bv_offset, bv_file, bv_flag, bv_ret>>
    /\ UNCHANGED bvFrame

\* No bit vector in use.
InitNoVector ==
    /\ bv_pc = "none"
    /\ bv = NoVector
    /\ appended = <<>>
    /\ bv_offset = 0
    /\ bv_file = <<>>
    /\ bv_read = NoVector
    /\ bv_flag = VECTOR_FLAG_STREAM
    /\ bv_ret = 0

\* No tree in use.
InitNoTree ==
    /\ theap = <<>>
    /\ ttree = htree_create
    /\ tfile = <<>>
    /\ t_offset = 0
    /\ tret = 0
    /\ t_last = "htree_create"
    /\ t_mutated = FALSE
    /\ t_args = <<NULL, NULL, NULL>>

\* No list in use.
InitNoList ==
    /\ lheap = <<>>
    /\ lhlist = hlist_create
    /\ l_first = NULL
    /\ l_second = NULL
    /\ l_ret = 0
    /\ l_last = "hlist_create"
    /\ l_calls = 0
    /\ l_wrapped = FALSE
    /\ l_args = <<0, 0>>

\* None of the three in use.
\* No vector made by the calls on their own.
InitNoCalls ==
    /\ cv = NoVector
    /\ c_last = "none"
    /\ c_string = <<>>
    /\ c_bit = 0
    /\ c_calls = 0

InitNoApi == InitNoVector /\ InitNoTree /\ InitNoList /\ InitNoCalls

\* The program not run.
InitNoProgram ==
    /\ pc = "idle"
    /\ ascii_set = 0
    /\ input = <<>>
    /\ in_pos = 0
    /\ heap = <<>>
    /\ distribution_list = hlist_create
    /\ parent = INDETERMINATE
    /\ distribution_tree = htree_create
    /\ ascii_opcode_table = EmptyTable
    /\ vector_opcode_table = EmptyTable
    /\ vector_opcodes = NoVector
    /\ ascii_opcodes = <<>>
    /\ offset = 0
    /\ artifact = <<>>
    /\ tampered = FALSE
    /\ dheap = <<>>
    /\ constructed_tree = htree_create
    /\ d_vector_opcodes = NoVector
    /\ d_ascii_opcodes = <<>>
    /\ opcode_loop_size = 0
    /\ temp_ptr = NULL
    /\ decoded_element = -1
    /\ i = 0
    /\ decoded_string = <<>>
    /\ output = <<>>

vars == <<progVars, apiVars>>

(***************************************************************************)
(* Spec: the program encodes an input file and decodes what it wrote.      *)
(***************************************************************************)
Init == InitProgram(MaxLen) /\ InitNoApi

Next ==
    \/ EncCount
    \/ EncCountEnd
    \/ EncMerge
    \/ EncAddRoot
    \/ EncParse
    \/ EncConvert
    \/ EncOutput
    \/ EncEmit
    \/ EncWrite
    \/ DecInput
    \/ DecBody
    \/ DecStep
    \/ DecWrite

Spec == Init /\ [][Next]_vars

(***************************************************************************)
(* SpecCorrupt: the same, and the file may be cut short or a character of  *)
(* its text body replaced between the two runs.                            *)
(***************************************************************************)
\* Longest input file of SpecCorrupt.
MaxCorruptLen == 3

InitCorrupt == InitProgram(MaxCorruptLen) /\ InitNoApi

NextCorrupt ==
    \/ EncCount
    \/ EncCountEnd
    \/ EncMerge
    \/ EncAddRoot
    \/ EncParse
    \/ EncConvert
    \/ EncOutput
    \/ EncEmit
    \/ EncWrite
    \/ Truncate
    \/ CorruptChar
    \/ DecInput
    \/ DecBody
    \/ DecStep
    \/ DecWrite

SpecCorrupt == InitCorrupt /\ [][NextCorrupt]_vars

(***************************************************************************)
(* SpecBalanced: the program encodes and decodes a file of 2^k distinct    *)
(* bytes, each once, in ascending order.                                   *)
(***************************************************************************)
\* Largest k of SpecBalanced.
MaxExponent == 3

\* The first byte of such a file: the lowest byte, a letter, or the byte
\* that makes the file end with 0xFF.
BalancedInput(k, base) == [j \in 1..Pow(2, k) |-> base + j - 1]

BalancedInputs ==
    UNION {{BalancedInput(k, base) : base \in {0, 97, 256 - Pow(2, k)}} :
           k \in 1..MaxExponent}

InitBalanced == InitProgramOn(BalancedInputs) /\ InitNoApi

SpecBalanced == InitBalanced /\ [][Next]_vars

(***************************************************************************)
(* Use of a tree by a caller: elements are allocated, made the root,       *)
(* connected, and the tree is parsed and written to a new file.            *)
(***************************************************************************)
\* Most elements a caller of the tree allocates.
MaxTreeElements == 3
\* Largest offset handed to htree_output.
MaxTreeOffset == 1

\* The elements of the subtree of `node`.
RECURSIVE TreeNodes(_, _)
TreeNodes(h, node) ==
    IF node = NULL THEN {}
    ELSE {node} \cup TreeNodes(h, h[node].left_child)
                \cup TreeNodes(h, h[node].right_child)

\* `node` is the child of some element.
IsChild(h, node) ==
    \E p \in 1..Len(h) : h[p].left_child = node \/ h[p].right_child = node

\* helement_create: a leaf for the byte 'a' or 'b', or an element that is
\* not a leaf.
TreeNewElement ==
    /\ Len(theap) < MaxTreeElements
    /\ \E e \in {<<97, 1>>, <<98, 1>>, <<LIST_SPECIAL_ELEMENT, 0>>} :
          theap' = Append(theap, helement_create(e[1], e[2],
                                                 SPECIAL_ELEMENT_FREQUENCY))
    /\ t_last' = "helement_create"
    /\ UNCHANGED <<ttree, tfile, t_offset, tret, t_mutated, t_args>>
    /\ UNCHANGED treeFrame

TreeAddElement ==
    /\ \E node \in 1..Len(theap) :
          /\ ~IsChild(theap, node)
          /\ ttree' = htree_add_element(ttree, node)
    /\ t_last' = "htree_add_element"
    /\ t_mutated' = TRUE
    /\ UNCHANGED <<theap, tfile, t_offset, tret, t_args>>
    /\ UNCHANGED treeFrame

\* htree_connect of two elements that have no parent yet to a third that
\* is in neither of their subtrees.
TreeConnect ==
    /\ \E par \in 1..Len(theap) :
       \E left_child \in 1..Len(theap) :
       \E right_child \in 1..Len(theap) :
          /\ left_child # right_child
          /\ par \notin TreeNodes(theap, left_child)
                           \cup TreeNodes(theap, right_child)
          /\ ~IsChild(theap, left_child) /\ ~IsChild(theap, right_child)
          /\ ttree.root \notin {left_child, right_child}
          /\ LET c == htree_connect(theap, par, left_child, right_child)
             IN  /\ theap' = c.heap
                 /\ tret' = c.ret
                 /\ t_args' = <<par, left_child, right_child>>
                 /\ t_mutated' = (t_mutated
                                  \/ (c.ret = 0
                                      /\ par \in TreeNodes(theap,
                                                              ttree.root)))
    /\ t_last' = "htree_connect"
    /\ UNCHANGED <<ttree, tfile, t_offset>>
    /\ UNCHANGED treeFrame

TreeParse ==
    /\ LET r == htree_parse(theap, ttree)
       IN  /\ ttree' = r.htree
           /\ t_mutated' = (t_mutated /\ ~r.ok)
           /\ tret' = IF r.ok THEN 0 ELSE NULL
    /\ t_last' = "htree_parse"
    /\ UNCHANGED <<theap, tfile, t_offset, t_args>>
    /\ UNCHANGED treeFrame

\* htree_output to a file just created.
TreeOutput ==
    /\ \E off \in 0..MaxTreeOffset :
          LET r == htree_output(theap, ttree, <<>>, 0, off)
          IN  /\ tfile' = r.file
              /\ tret' = r.ret
              /\ t_offset' = off
    /\ t_last' = "htree_output"
    /\ UNCHANGED <<theap, ttree, t_mutated, t_args>>
    /\ UNCHANGED treeFrame

(***************************************************************************)
(* SpecTree: a caller builds, parses and writes a tree.                    *)
(***************************************************************************)
InitTree == InitNoProgram /\ InitNoApi

NextTree ==
    \/ TreeNewElement
    \/ TreeAddElement
    \/ TreeConnect
    \/ TreeParse
    \/ TreeOutput

SpecTree == InitTree /\ [][NextTree]_vars

(***************************************************************************)
(* SpecBV: a bit vector is created, appended to, written and read back.    *)
(***************************************************************************)
InitBV == InitNoProgram /\ InitNoApi

NextBV ==
    \/ BvCreate
    \/ BvAppendBit
    \/ BvOutput
    \/ BvInput

SpecBV == InitBV /\ [][NextBV]_vars

(***************************************************************************)
(* The list used on its own: elements are added or incremented and the two *)
(* smallest are taken, in any order.                                       *)
(***************************************************************************)
\* Most calls made on a list.
MaxListCalls == 5

ListElements == {97, LIST_SPECIAL_ELEMENT}
ListFrequencies == {SPECIAL_ELEMENT_FREQUENCY, 2, UINT64_MAX}

ListAdd ==
    /\ l_calls < MaxListCalls
    /\ \E element \in ListElements : \E frequency \in ListFrequencies :
          LET r == hlist_add_increment_element(lheap, lhlist, element,
                                               frequency)
          IN  /\ lheap' = r.heap
              /\ lhlist' = r.hlist
              /\ l_ret' = r.ret
              /\ l_args' = <<element, frequency>>
              /\ l_wrapped' = (l_wrapped
                               \/ (Len(r.heap) = Len(lheap)
                                   /\ lheap[r.ret].frequency = UINT64_MAX))
    /\ l_last' = "hlist_add_increment_element"
    /\ l_calls' = l_calls + 1
    /\ UNCHANGED <<l_first, l_second>>
    /\ UNCHANGED listFrame

ListGetTwoMin ==
    /\ l_calls < MaxListCalls
    /\ LET r == hlist_get_two_min(lheap, lhlist, l_first, l_second)
       IN  /\ lheap' = r.heap
           /\ lhlist' = r.hlist
           /\ l_first' = r.first
           /\ l_second' = r.second
           /\ l_ret' = r.ret
    /\ l_last' = "hlist_get_two_min"
    /\ l_calls' = l_calls + 1
    /\ UNCHANGED <<l_wrapped, l_args>>
    /\ UNCHANGED listFrame

InitList == InitNoProgram /\ InitNoApi

NextList ==
    \/ ListAdd
    \/ ListGetTwoMin

SpecList == InitList /\ [][NextList]_vars

(***************************************************************************)
(* The calls on a bit vector in any order: a vector is made by             *)
(* bvector_create or by bvector_convert of a string, and is then resized   *)
(* and appended to.                                                        *)
(***************************************************************************)
\* Longest string given to bvector_convert.
MaxString == 3
\* Largest length given to bvector_create and to bvector_resize.
MaxResize == 2
\* Most calls made on a vector after it was made.
MaxVectorCalls == 3

\* The characters of the strings: '0', '1' and 'x'.
StringChars == {CHAR_0, CHAR_1, 120}

CvCreate ==
    /\ c_last = "none"
    /\ \E length \in 1..MaxResize : cv' = bvector_create(length).bv
    /\ c_last' = "bvector_create"
    /\ UNCHANGED <<c_string, c_bit, c_calls>>
    /\ UNCHANGED cvFrame

\* bvector_convert; after a NULL there is no vector to go on with.
CvConvert ==
    /\ c_last = "none"
    /\ \E t \in SeqsUpTo(StringChars, MaxString) : \E junk \in UninitBytes :
          LET r == bvector_convert(t, junk)
          IN  /\ c_string' = t
              /\ cv' = r.bv
              /\ c_last' = IF r.ok THEN "bvector_convert"
                           ELSE "bvector_convert_null"
    /\ UNCHANGED <<c_bit, c_calls>>
    /\ UNCHANGED cvFrame

CvResize ==
    /\ c_last \notin {"none", "bvector_convert_null"}
    /\ c_calls < MaxVectorCalls
    /\ \E length \in 0..MaxResize : \E junk \in UninitBytes :
          cv' = bvector_resize(cv, length, junk)
    /\ c_last' = "bvector_resize"
    /\ c_calls' = c_calls + 1
    /\ UNCHANGED <<c_string, c_bit>>
    /\ UNCHANGED cvFrame

CvAppendBit ==
    /\ c_last \notin {"none", "bvector_convert_null"}
    /\ c_calls < MaxVectorCalls
    /\ \E bit \in {0, 1} : \E junk \in UninitBytes :
          /\ cv' = bvector_append_bit(cv, bit, junk).bv
          /\ c_bit' = bit
    /\ c_last' = "bvector_append_bit"
    /\ c_calls' = c_calls + 1
    /\ UNCHANGED c_string
    /\ UNCHANGED cvFrame

InitCalls == InitNoProgram /\ InitNoApi

NextCalls ==
    \/ CvCreate
    \/ CvConvert
    \/ CvResize
    \/ CvAppendBit

SpecCalls == InitCalls /\ [][NextCalls]_vars


(***************************************************************************)
(* What the properties speak of.                                           *)
(***************************************************************************)
Occurring(bytes) == {bytes[k] : k \in 1..Len(bytes)}
Frequency(bytes, s) == Cardinality({k \in 1..Len(bytes) : bytes[k] = s})

IsPrefix(p, q) == Len(p) <= Len(q) /\ SubSeq(q, 1, Len(p)) = p

\* The program has ended: with an error message, with a fault, or with
\* huffman_decode returning 0.
Ended == pc \in {"enc_error", "enc_fault", "dec_error", "dec_fault",
                 "dec_done"}

\* The encoder is past its call of htree_parse, or ended before or in it.
PastParse == pc \notin {"enc_count", "enc_merge", "enc_parse"}

\* A tree as a value: the element, the leaf flag and the two subtrees of
\* every element, from the root down.
RECURSIVE TreeShape(_, _)
TreeShape(h, node) ==
    IF node = NULL THEN <<>>
    ELSE <<h[node].element, h[node].leaf_node,
           TreeShape(h, h[node].left_child),
           TreeShape(h, h[node].right_child)>>

RECURSIVE PreOrder(_, _)
PreOrder(h, node) ==
    IF node = NULL THEN <<>>
    ELSE <<<<h[node].element, h[node].leaf_node>>>>
         \o PreOrder(h, h[node].left_child)
         \o PreOrder(h, h[node].right_child)

RECURSIVE SumOver(_, _)
SumOver(S, f) ==
    IF S = {} THEN 0
    ELSE LET x == CHOOSE y \in S : TRUE
         IN  f[x] + SumOver(S \ {x}, f)

\* The least weighted length of a binary prefix code for the frequencies of
\* `bytes`: by Kraft's inequality the lengths l of a prefix code are those
\* with the sum of 2^(-l[s]) at most 1, and no length need exceed the
\* number of symbols.
OptimalWeight(bytes) ==
    LET S == Occurring(bytes)
        D == Cardinality(S)
        Lengths == {l \in [S -> 0..D] :
                       SumOver(S, [s \in S |-> Pow(2, D - l[s])]) <= Pow(2, D)}
        Weight(l) == SumOver(S, [s \in S |-> Frequency(bytes, s) * l[s]])
    IN  CHOOSE w \in {Weight(l) : l \in Lengths} :
            \A l \in Lengths : w <= Weight(l)

TableWeight(bytes, table) ==
    SumOver(Occurring(bytes),
            [s \in Occurring(bytes) |-> Frequency(bytes, s) * Len(table[s])])

(***************************************************************************)
(* Properties.                                                             *)
(***************************************************************************)

\* C1: bit mode round trip.  For every input (stated here of the inputs
\* of one byte or more, a single distinct byte included), encoding in bit
\* mode and decoding the file that was written ends with the decoder
\* returning 0 and the output equal to the input.
RoundTripBit ==
    (ascii_set = 0 /\ input # <<>> /\ ~tampered /\ Ended)
        => (pc = "dec_done" /\ output = input)

\* C2: text mode round trip.  For every input (stated here of the inputs
\* of one byte or more), encoding in ASCII mode and decoding the file that
\* was written ends with the decoder returning 0 and the output equal to
\* the input.
RoundTripText ==
    (ascii_set = 1 /\ input # <<>> /\ ~tampered /\ Ended)
        => (pc = "dec_done" /\ output = input)

\* What holds of the round trip: an input with two or more distinct bytes
\* comes back, in either mode.
RoundTripWhenMerged ==
    (Cardinality(Occurring(input)) >= 2 /\ ~tampered /\ Ended)
        => (pc = "dec_done" /\ output = input)

\* C3: prefix freedom.  In the table htree_parse returned for the tree the
\* encoder built, for two distinct bytes a and b of the input, both have an
\* opcode and the opcode of a is not a prefix of the opcode of b.
PrefixFreedom ==
    distribution_tree._parsed = 1 =>
        \A a \in Occurring(input) : \A b \in Occurring(input) :
            a # b =>
                /\ a \in DOMAIN ascii_opcode_table
                /\ b \in DOMAIN ascii_opcode_table
                /\ ~IsPrefix(ascii_opcode_table[a], ascii_opcode_table[b])

\* C3 witness: parsed, three distinct bytes, opcodes of lengths 1 and 2.
PrefixFreedomWitness ==
    /\ distribution_tree._parsed = 1
    /\ Cardinality(Occurring(input)) = 3
    /\ \E a \in DOMAIN ascii_opcode_table :
       \E b \in DOMAIN ascii_opcode_table :
          Len(ascii_opcode_table[a]) = 1 /\ Len(ascii_opcode_table[b]) = 2

\* C4: once the encoder is past building the tree and parsing it, the
\* table has an opcode for byte s exactly when s occurs in the input.
TableCoversAlphabet ==
    PastParse => DOMAIN ascii_opcode_table = Occurring(input)

\* What holds of the table: whenever htree_parse returned one, its entries
\* are the bytes of the input.
TableCoversAlphabetWhenParsed ==
    distribution_tree._parsed = 1 =>
        DOMAIN ascii_opcode_table = Occurring(input)

\* C5: optimality.  For every input, once the encoder is past building and
\* parsing, every byte of the input has an opcode and the sum of
\* frequency * opcode length is the least weight of a binary prefix code.
Optimality ==
    PastParse =>
        /\ Occurring(input) \subseteq DOMAIN ascii_opcode_table
        /\ TableWeight(input, ascii_opcode_table) = OptimalWeight(input)

\* What holds of the weight: whenever htree_parse returned a table, its
\* weight is the least one.
OptimalityWhenParsed ==
    distribution_tree._parsed = 1 =>
        /\ Occurring(input) \subseteq DOMAIN ascii_opcode_table
        /\ TableWeight(input, ascii_opcode_table) = OptimalWeight(input)

BitOrdering ==
    /\ bv_pc \in {"created", "written", "read", "read_null"} =>
          \A k \in 1..Len(appended) :
              bvector_check_bit(bv, k - 1) = appended[k]
    /\ bv_pc = "read" =>
          /\ bvector_get_size(bv_read, VECTOR_FLAG_STREAM) = Len(appended)
          /\ \A k \in 1..Len(appended) :
                 bvector_check_bit(bv_read, k - 1) = appended[k]
    /\ bv_pc = "read_null" => Len(appended) = 0

\* C7 witness: nine bits, ones and zeros, past the first byte and past a
\* doubling, were appended, written and read back.
BitOrderingWitness ==
    /\ bv_pc = "read"
    /\ Len(appended) = 9
    /\ appended[9] = 1
    /\ appended[8] = 0
    /\ appended[1] = 1
    /\ bv_offset = 1

\* C8: when the opcodes are used up and the walk is at an element that is
\* not the root, in the middle of a code, huffman_decode does not return 0.
MidCodeFails ==
    ~(/\ pc = "dec_done"
      /\ i = opcode_loop_size
      /\ temp_ptr # NULL
      /\ temp_ptr # constructed_tree.root)

\* C9: in text mode, when the opcodes hold a character that is neither '0'
\* nor '1', huffman_decode does not write the output and return 0.
OtherCharFails ==
    ~(/\ pc = "dec_done"
      /\ ascii_set = 1
      /\ \E k \in 1..Len(d_ascii_opcodes) :
            d_ascii_opcodes[k] \notin {CHAR_0, CHAR_1})

\* The file holds the count and the root, fewer elements than the count,
\* and the read of a child element met the end of the file.
TreeCutShort ==
    /\ Len(artifact) >= TREE_INPUT_COUNT_SIZE
    /\ _input_object(artifact, TREE_INPUT_ROOT_ELEMENT_INDEX).ok
    /\ Len(artifact) < TREE_INPUT_OBJECT_OFFSET(
                           BytesToU64(pread(artifact, TREE_INPUT_COUNT_SIZE,
                                            0)))
    /\ _input(artifact,
              <<_input_object(artifact, TREE_INPUT_ROOT_ELEMENT_INDEX).elem>>,
              1, TREE_INPUT_ROOT_ELEMENT_INDEX, 0).ret = TREE_BAD_COUNT

\* C10: when the file ends before every element of the tree could be read,
\* htree_input returns no tree and the decoder does not go on.
CutTreeRefused ==
    ~(pc \in {"dec_body", "dec_step", "dec_done"} /\ TreeCutShort)

\* C11: the root is the element left in the list.  For every input of one
\* byte or more, once hlist_get_two_min has failed in the merge loop, one
\* element remains in the frequency list and it is the root of the tree.
RootIsRemaining ==
    (input # <<>> /\ pc \notin {"enc_count", "enc_merge"}) =>
        /\ hlist_count(distribution_list) = 1
        /\ distribution_tree.root = distribution_list.list

\* What holds of the root: after one merge or more, the root is the
\* element left in the list.
RootIsRemainingWhenMerged ==
    (Cardinality(Occurring(input)) >= 2
     /\ pc \notin {"enc_count", "enc_merge"}) =>
        /\ hlist_count(distribution_list) = 1
        /\ distribution_tree.root = distribution_list.list


\* The k with 2^k = n, for n a power of two.
RECURSIVE Log2(_)
Log2(n) == IF n <= 1 THEN 0 ELSE 1 + Log2(n \div 2)

\* C12: balanced codes.  For an input of 2^k distinct bytes, each once, in
\* ascending order (k of 1 or more), the table htree_parse returns has an
\* opcode for every byte of the input and every opcode has length k.
BalancedCodes ==
    (input \in BalancedInputs /\ PastParse) =>
        /\ distribution_tree._parsed = 1
        /\ Occurring(input) = DOMAIN ascii_opcode_table
        /\ \A s \in Occurring(input) :
               Len(ascii_opcode_table[s]) = Log2(Len(input))

\* C12 witness: the eight bytes 0xF8 .. 0xFF were encoded, each with an
\* opcode of three characters.
BalancedCodesWitness ==
    /\ Len(input) = 8
    /\ input[8] = 255
    /\ pc = "enc_done"
    /\ Len(ascii_opcode_table[255]) = 3


\* C13: a change of the tree clears the parsed flag.  After
\* htree_add_element, or an htree_connect that gave children to an element
\* of the tree, and before the next htree_parse, _parsed is 0 and
\* htree_output returns -2.
MutationUnparses ==
    t_mutated =>
        /\ ttree._parsed = 0
        /\ t_last = "htree_output" => tret = -2

\* What holds of the flag: htree_add_element clears it and htree_output
\* then returns -2.
AddElementUnparses ==
    /\ t_last = "htree_add_element" => ttree._parsed = 0
    /\ (t_last = "htree_output" /\ ttree._parsed = 0) => tret = -2


TreeLaidOutAt(file, h, htree, off) ==
    /\ pread(file, TREE_INPUT_COUNT_SIZE, off) = U64ToBytes(htree.count)
    /\ Len(PreOrder(h, htree.root)) = htree.count
    /\ \A k \in 0..(htree.count - 1) :
           pread(file, TREE_INPUT_OBJECT_SIZE,
                 off + TREE_INPUT_COUNT_SIZE + TREE_INPUT_OBJECT_SIZE * k)
               = PreOrder(h, htree.root)[k + 1]

\* C15: the layout htree_output writes.  htree_output(fd, offset) of a
\* parsed tree puts the count at `offset`, the pair of the element with
\* pre-order index k at offset + 8 + 2k, and returns offset + 8 + 2 * count,
\* which is TREE_INPUT_OBJECT_OFFSET(count) when offset is 0.
TreeLayout ==
    (t_last = "htree_output" /\ ~t_mutated /\ tret >= 0) =>
        /\ TreeLaidOutAt(tfile, theap, ttree, t_offset)
        /\ tret = t_offset + TREE_INPUT_COUNT_SIZE
                  + TREE_INPUT_OBJECT_SIZE * ttree.count
        /\ t_offset = 0 => tret = TREE_INPUT_OBJECT_OFFSET(ttree.count)

\* What holds of the layout: it is as stated when the offset is 0, the
\* position of a file just opened.
TreeLayoutAtZero ==
    (t_last = "htree_output" /\ ~t_mutated /\ tret >= 0 /\ t_offset = 0) =>
        /\ TreeLaidOutAt(tfile, theap, ttree, 0)
        /\ tret = TREE_INPUT_OBJECT_OFFSET(ttree.count)

\* What holds at another offset: the pairs and the value returned are as
\* stated, the count is at the position of the descriptor.
TreeLayoutElsewhere ==
    (t_last = "htree_output" /\ ~t_mutated /\ tret >= 0) =>
        /\ pread(tfile, TREE_INPUT_COUNT_SIZE, 0) = U64ToBytes(ttree.count)
        /\ \A k \in 0..(ttree.count - 1) :
               pread(tfile, TREE_INPUT_OBJECT_SIZE,
                     t_offset + TREE_INPUT_COUNT_SIZE
                     + TREE_INPUT_OBJECT_SIZE * k)
                   = PreOrder(theap, ttree.root)[k + 1]
        /\ tret = t_offset + TREE_INPUT_COUNT_SIZE
                  + TREE_INPUT_OBJECT_SIZE * ttree.count


\* The file of the last bvector_output holds, at the offset it was given,
\* the size for the flag in 8 bytes and then `n` bytes of the vector, and
\* nothing after them, and bvector_output returned the offset after them.
VectorWrittenWith(n) ==
    /\ pread(bv_file, 8, bv_offset)
           = U64ToBytes(bvector_get_size(bv, bv_flag))
    /\ Len(bv_file) = bv_offset + 8 + n
    /\ pread(bv_file, n, bv_offset + 8) = SubSeq(bv.vector, 1, n)
    /\ bv_ret = bv_offset + 8 + n

\* C16 as stated: bvector_output writes the size at `offset`, then exactly
\* ceil(size / 8) + 1 bytes of the vector at offset + 8, and returns the
\* offset after the last byte written.
OutputCeilBytes ==
    bv_pc \in {"written", "written_full"} =>
        VectorWrittenWith(((bvector_get_size(bv, bv_flag)
                            + VECTOR_BYTE_SIZE - 1) \div VECTOR_BYTE_SIZE)
                          + 1)

\* C16 amended: bvector_output writes the size at `offset`, then exactly
\* floor(size / 8) + 1 bytes of the vector at offset + 8, and returns the
\* offset after the last byte written.
OutputFloorBytes ==
    bv_pc \in {"written", "written_full"} =>
        VectorWrittenWith((bvector_get_size(bv, bv_flag)
                           \div VECTOR_BYTE_SIZE) + 1)

\* C16 witness: a vector of nine bits was written in STREAM mode at offset
\* 1: two bytes of the vector follow the size.
OutputFloorBytesWitness ==
    /\ bv_pc = "written"
    /\ bv_flag = VECTOR_FLAG_STREAM
    /\ Len(appended) = 9
    /\ bv_offset = 1
    /\ Len(bv_file) = 11


\* The elements met by following `next` from `node`, at most `n` of them.
RECURSIVE Chain(_, _, _)
Chain(h, node, n) ==
    IF node = NULL \/ n = 0 THEN <<>>
    ELSE <<node>> \o Chain(h, h[node].next, n - 1)

\* The elements of the list in use, from its head; one more than there are
\* elements allocated if following `next` never ends.
ListChain == Chain(lheap, lhlist.list, Len(lheap) + 1)

NonDecreasing(h, c) ==
    \A k \in 1..(Len(c) - 1) :
        U64LessEq(h[c[k]].frequency, h[c[k + 1]].frequency)

\* C17: after any sequence of hlist_add_increment_element and
\* hlist_get_two_min calls the elements from head to tail are in
\* non-decreasing order of frequency, so that the head has the minimum
\* frequency of the list.
ListSorted ==
    /\ NonDecreasing(lheap, ListChain)
    /\ \A k \in 1..Len(ListChain) :
          U64LessEq(lheap[lhlist.list].frequency,
                    lheap[ListChain[k]].frequency)

\* The list is in order as long as no frequency was incremented past
\* UINT64_MAX.
ListSortedUnlessWrapped == (~l_wrapped) => ListSorted

\* C19: following `next` from the head visits exactly `count` distinct
\* elements, the head has no previous element, and every element of the
\* list that has a successor is the previous element of that successor.
ListWellFormed ==
    /\ Len(ListChain) = lhlist.count
    /\ \A j, k \in 1..Len(ListChain) :
          j # k => ListChain[j] # ListChain[k]
    /\ lhlist.list # NULL => lheap[lhlist.list].previous = NULL
    /\ \A k \in 1..Len(ListChain) :
          LET n == ListChain[k]
          IN  lheap[n].next # NULL => lheap[lheap[n].next].previous = n

\* C19 witness: the list has four elements and the one allocated last is
\* the third of them: it was added at the head and swapped with the two
\* elements that followed it, the second time between two neighbours.
ListWellFormedWitness ==
    /\ l_last = "hlist_add_increment_element"
    /\ lhlist.count = 4
    /\ Len(lheap) = 4
    /\ ListChain[3] = 4

\* C18: hlist_get_two_min succeeds exactly when count >= 2; it then returns
\* the head and its successor with their list links cleared, makes the
\* former third element the head, followed by what followed it, and lowers
\* count by 2; when count < 2 it returns an error and leaves the elements,
\* the list, its count and the two output slots as they were.
GetTwoMinEffect ==
    [][(l_last' = "hlist_get_two_min" /\ l_calls' = l_calls + 1) =>
          IF lhlist.count >= 2
          THEN /\ l_ret' = 0
               /\ l_first' = ListChain[1]
               /\ l_second' = ListChain[2]
               /\ lheap'[l_first'].next = NULL
               /\ lheap'[l_first'].previous = NULL
               /\ lheap'[l_second'].next = NULL
               /\ lheap'[l_second'].previous = NULL
               /\ lhlist'.list = (IF Len(ListChain) >= 3 THEN ListChain[3]
                                  ELSE NULL)
               /\ ListChain' = SubSeq(ListChain, 3, Len(ListChain))
               /\ lhlist'.count = lhlist.count - 2
          ELSE /\ l_ret' # 0
               /\ lheap' = lheap
               /\ lhlist' = lhlist
               /\ l_first' = l_first
               /\ l_second' = l_second]_vars

\* C18 witness: hlist_get_two_min has succeeded on a list of more than two
\* elements and, after it, failed on the one element that was left.
GetTwoMinWitness ==
    /\ l_last = "hlist_get_two_min"
    /\ l_ret # 0
    /\ lhlist.count = 1
    /\ l_first # NULL
    /\ l_second # NULL


\* The opcode the decoder passes to htree_state_step at position i.
OpcodeAt(k) ==
    IF ascii_set # 0 THEN d_ascii_opcodes[k + 1] - CHAR_0
    ELSE bvector_check_bit(d_vector_opcodes, k)

\* C20: a call of htree_state_step that returns, made with a current node
\* and opcode 0 or 1, goes to the left or the right child; if that child is
\* a leaf it emits the child's element and returns the root of the tree,
\* otherwise it emits -1 and returns the child; made with a NULL current
\* node or with another opcode it returns NULL.
StateStepEffect ==
    [][(pc = "dec_step" /\ i' = i + 1) =>
          IF temp_ptr = NULL \/ OpcodeAt(i) \notin {0, 1}
          THEN temp_ptr' = NULL
          ELSE LET child == IF OpcodeAt(i) = 0
                            THEN dheap[temp_ptr].left_child
                            ELSE dheap[temp_ptr].right_child
               IN  /\ child # NULL
                   /\ IF dheap[child].leaf_node # 0
                      THEN /\ decoded_element' = dheap[child].element
                           /\ temp_ptr' = constructed_tree.root
                      ELSE /\ decoded_element' = -1
                           /\ temp_ptr' = child]_vars

\* The node the decoder is at before it reads the opcode at position k, by
\* the steps of C20 from the root of the tree.
RECURSIVE NodeBefore(_)
NodeBefore(k) ==
    IF k = 0 THEN constructed_tree.root
    ELSE LET n == NodeBefore(k - 1)
             child == IF OpcodeAt(k - 1) = 0 THEN dheap[n].left_child
                      ELSE dheap[n].right_child
         IN  IF n = NULL \/ OpcodeAt(k - 1) \notin {0, 1} THEN NULL
             ELSE IF child = NULL THEN NULL
             ELSE IF dheap[child].leaf_node # 0 THEN constructed_tree.root
             ELSE child

\* C20 witness: the decoder has stepped to a leaf, whose element it emitted,
\* and to an internal node, and then, after an opcode that is neither 0 nor
\* 1, has been returned NULL.
StateStepWitness ==
    /\ pc = "dec_step"
    /\ temp_ptr = NULL
    /\ decoded_string # <<>>
    /\ \E k \in 1..(i - 1) :
          /\ i >= k + 2
          /\ NodeBefore(k) \notin {NULL, constructed_tree.root}
          /\ NodeBefore(k + 1) = constructed_tree.root
          /\ OpcodeAt(k + 1) \notin {0, 1}

\* The child htree_state_step goes to at position i, or NULL when the call
\* fails or the current node has no such child.
StepChild ==
    IF temp_ptr = NULL \/ OpcodeAt(i) \notin {0, 1} THEN NULL
    ELSE IF OpcodeAt(i) = 0 THEN dheap[temp_ptr].left_child
    ELSE dheap[temp_ptr].right_child

\* htree_state_step emits an element at position i: it goes to a leaf.
StepEmits ==
    IF StepChild = NULL THEN FALSE ELSE dheap[StepChild].leaf_node # 0

\* C21: the decoder appends a byte to its output on exactly the steps where
\* htree_state_step emitted an element; a step that reaches no leaf, or a
\* step that fails, adds nothing.
AppendOnEmit ==
    [][(pc = "dec_step" /\ i' = i + 1) =>
          decoded_string' = IF StepEmits
                            THEN Append(decoded_string,
                                        dheap[StepChild].element)
                            ELSE decoded_string]_vars

\* The same for the steps that do not fail: what goes wrong is the byte
\* added after a call that returned NULL.
AppendOnEmitUnlessFailed ==
    [][(pc = "dec_step" /\ i' = i + 1 /\ StepChild # NULL) =>
          decoded_string' = IF StepEmits
                            THEN Append(decoded_string,
                                        dheap[StepChild].element)
                            ELSE decoded_string]_vars


\* C22: htree_connect(parent, a, b) on a parent that is not a leaf returns 0
\* and sets left_child = a and right_child = b when b is a leaf, and
\* left_child = b and right_child = a otherwise; on a parent that is a leaf
\* it returns an error and leaves the children of the parent as they were.
ConnectEffect ==
    [][t_last' = "htree_connect" =>
          LET par == t_args'[1]
              a   == t_args'[2]
              b   == t_args'[3]
          IN  IF theap[par].leaf_node = 0
              THEN /\ tret' = 0
                   /\ theap'[par].left_child
                          = (IF theap[b].leaf_node # 0 THEN a ELSE b)
                   /\ theap'[par].right_child
                          = (IF theap[b].leaf_node # 0 THEN b ELSE a)
              ELSE /\ tret' # 0
                   /\ theap'[par].left_child = theap[par].left_child
                   /\ theap'[par].right_child = theap[par].right_child]_vars

\* C22 witness: the last htree_connect was given a second child that is not
\* a leaf and has made it the left child.
ConnectWitness ==
    /\ t_last = "htree_connect"
    /\ tret = 0
    /\ theap[t_args[3]].leaf_node = 0
    /\ theap[t_args[1]].left_child = t_args[3]
    /\ theap[t_args[1]].right_child = t_args[2]


\* The encoder has written its file.
Written == pc \in {"enc_done", "dec_body", "dec_step", "dec_error",
                   "dec_fault", "dec_done"}

\* The internal elements of the tree of the encoder that have two children.
Internal ==
    {n \in TreeNodes(heap, distribution_tree.root) :
        /\ heap[n].leaf_node = 0
        /\ heap[n].left_child # NULL
        /\ heap[n].right_child # NULL}

TreeIsFull ==
    /\ distribution_tree.root \in 1..Len(heap)
    /\ \A n \in TreeNodes(heap, distribution_tree.root) :
          IF heap[n].leaf_node # 0
          THEN heap[n].left_child = NULL /\ heap[n].right_child = NULL
          ELSE heap[n].left_child # NULL /\ heap[n].right_child # NULL

\* C24: after the encoder has built the tree of an input that is not empty
\* the root exists, every internal element reachable from it has a left and
\* a right child, and every leaf has no children.
FullTree ==
    (input # <<>> /\ pc \notin {"enc_count", "enc_merge"}) => TreeIsFull

\* What holds of the tree: the same after one merge or more.
FullTreeWhenMerged ==
    (Cardinality(Occurring(input)) >= 2
     /\ pc \notin {"enc_count", "enc_merge"}) => TreeIsFull


\* The last step was a call hlist_add_increment_element(element, frequency).
ListAdded ==
    /\ l_last' = "hlist_add_increment_element"
    /\ l_calls' = l_calls + 1

\* No element that was in the heap has another frequency after the step.
FrequenciesKept ==
    \A n \in 1..Len(lheap) : lheap'[n].frequency = lheap[n].frequency

\* The step has allocated one element, with this leaf flag and frequency,
\* put it in the list and returned it, and count is one higher.
ElementCreated(element, leaf_node_flag, frequency) ==
    /\ Len(lheap') = Len(lheap) + 1
    /\ lheap'[Len(lheap')].element = element
    /\ lheap'[Len(lheap')].leaf_node = leaf_node_flag
    /\ lheap'[Len(lheap')].frequency = frequency
    /\ l_ret' = Len(lheap')
    /\ \E k \in 1..Len(ListChain') : ListChain'[k] = Len(lheap')
    /\ lhlist'.count = lhlist.count + 1

\* C25: hlist_add_increment_element(0xFF, f) with f # 0 always creates a
\* new element that is not a leaf, with frequency f, and raises count by 1,
\* whatever elements 0xFF the list holds, and changes the frequency of no
\* element there was.
SpecialIsAdded ==
    [][(ListAdded /\ l_args'[1] = LIST_SPECIAL_ELEMENT
                  /\ l_args'[2] # SPECIAL_ELEMENT_FREQUENCY) =>
          /\ ElementCreated(LIST_SPECIAL_ELEMENT, 0, l_args'[2])
          /\ FrequenciesKept]_vars

\* C25 witness: hlist_add_increment_element(0xFF, 2) was called on a list
\* that held a leaf 0xFF and an internal element 0xFF, and the list holds a
\* second internal element 0xFF.
SpecialIsAddedWitness ==
    /\ l_last = "hlist_add_increment_element"
    /\ l_args = <<LIST_SPECIAL_ELEMENT, 2>>
    /\ l_ret = Len(lheap)
    /\ \E j, k \in 1..(Len(lheap) - 1) :
          /\ j # k
          /\ lheap[j].element = LIST_SPECIAL_ELEMENT
          /\ lheap[j].leaf_node # 0
          /\ lheap[k].element = LIST_SPECIAL_ELEMENT
          /\ lheap[k].leaf_node = 0
          /\ \E m, n \in 1..Len(ListChain) :
                ListChain[m] = j /\ ListChain[n] = k

\* C26: hlist_add_increment_element(s, 0) either adds exactly 1 to the
\* frequency of a leaf s of the list, and to no other frequency, or creates
\* a leaf s with frequency 1; it never changes the frequency of an element
\* that is not a leaf.
LeafIsCounted ==
    [][(ListAdded /\ l_args'[2] = SPECIAL_ELEMENT_FREQUENCY) =>
          \/ /\ ElementCreated(l_args'[1], 1, DEFAULT_ELEMENT_FREQUENCY)
             /\ FrequenciesKept
          \/ /\ Len(lheap') = Len(lheap)
             /\ \E n \in 1..Len(lheap) :
                   /\ lheap[n].leaf_node # 0
                   /\ lheap[n].element = l_args'[1]
                   /\ \E k \in 1..Len(ListChain) : ListChain[k] = n
                   /\ lheap'[n].frequency = lheap[n].frequency + 1
                   /\ \A m \in 1..Len(lheap) :
                         m # n => lheap'[m].frequency = lheap[m].frequency
      ]_vars

\* The same for a byte other than 0xFF.
LeafIsCountedUnlessSpecial ==
    [][(ListAdded /\ l_args'[2] = SPECIAL_ELEMENT_FREQUENCY
                  /\ l_args'[1] # LIST_SPECIAL_ELEMENT) =>
          \/ /\ ElementCreated(l_args'[1], 1, DEFAULT_ELEMENT_FREQUENCY)
             /\ FrequenciesKept
          \/ /\ Len(lheap') = Len(lheap)
             /\ \E n \in 1..Len(lheap) :
                   /\ lheap[n].leaf_node # 0
                   /\ lheap[n].element = l_args'[1]
                   /\ \E k \in 1..Len(ListChain) : ListChain[k] = n
                   /\ lheap'[n].frequency = lheap[n].frequency + 1
                   /\ \A m \in 1..Len(lheap) :
                         m # n => lheap'[m].frequency = lheap[m].frequency
      ]_vars


\* The elements of the list of the encoder, from its head.
EncoderChain == Chain(heap, distribution_list.list, Len(heap) + 1)

\* The encoder is adding to its list or taking from it.
ListInUse == pc \in {"enc_count", "enc_merge"}

\* The number of input bytes counted so far.
Counted == IF pc = "enc_count" THEN in_pos ELSE Len(input)

\* When the encoder last called hlist_add_increment_element for the element
\* n: a leaf at the last position of its byte among the bytes counted, an
\* internal element, after all of these, when it was created.
LastCall(n) ==
    IF heap[n].leaf_node # 0
    THEN CHOOSE k \in 1..Counted :
            /\ input[k] = heap[n].element
            /\ \A m \in (k + 1)..Counted : input[m] # heap[n].element
    ELSE Len(input) + n

BitAppended ==
    /\ c_last' = "bvector_append_bit"
    /\ c_calls' = c_calls + 1

\* What C28 says of a call bvector_append_bit(b).
AppendBitEffect ==
    /\ cv'.vector_length = (IF cv.working_index = cv.vector_length
                            THEN 2 * cv.vector_length
                            ELSE cv.vector_length)
    /\ bvector_check_bit(cv', cv.working_index) = c_bit'
    /\ cv'.working_index = cv.working_index + 1
    /\ cv'.working_index <= cv'.vector_length

\* C28: bvector_append_bit(b) in every reachable state of a vector, after
\* bvector_resize and bvector_convert too: the capacity is doubled first if
\* the cursor equals it; then the bit at the old cursor is b, the cursor is
\* one higher and it is at most the capacity.
AppendBitStores ==
    [][BitAppended => AppendBitEffect]_vars

\* The same for a vector whose capacity is not 0 and whose cursor is not
\* past its capacity.
AppendBitStoresWithRoom ==
    [][(BitAppended /\ cv.vector_length > 0
                    /\ cv.working_index <= cv.vector_length)
          => AppendBitEffect]_vars

\* The bits of a string: its characters '0' and '1', in order, as 0 and 1.
RECURSIVE BitsOf(_)
BitsOf(t) ==
    IF t = <<>> THEN <<>>
    ELSE IF Head(t) \in {CHAR_0, CHAR_1}
    THEN <<Head(t) - CHAR_0>> \o BitsOf(Tail(t))
    ELSE BitsOf(Tail(t))

\* The bits 0 .. n - 1 of a vector.
BitsIn(v, n) == [k \in 1..n |-> bvector_check_bit(v, k - 1)]

\* What C29 says of the vector bvector_convert returned for c_string.
\* Appended in FULL mode to a new vector it adds the bits of the string.
ConvertedRight ==
    /\ c_last = "bvector_convert"
    /\ cv.vector_length = Len(BitsOf(c_string))
    /\ cv.working_index = Len(BitsOf(c_string))
    /\ BitsIn(cv, cv.working_index) = BitsOf(c_string)
    /\ \A junk \in UninitBytes :
          LET d == bvector_append_vector(bvector_create(1).bv, cv,
                                         VECTOR_FLAG_FULL, junk)
          IN  /\ d.working_index = Len(BitsOf(c_string))
              /\ BitsIn(d, d.working_index) = BitsOf(c_string)

\* C29: for every string t, the empty string and the strings without '0'
\* and '1' too, bvector_convert(t) returns a vector whose capacity and
\* cursor are the number of characters '0' and '1' of t and whose bits are
\* these characters in order, so that appending it in FULL mode appends
\* these bits.
ConvertTrims ==
    c_last \in {"bvector_convert", "bvector_convert_null"} => ConvertedRight

\* The same for the strings that are not empty.
ConvertTrimsUnlessEmpty ==
    (c_last \in {"bvector_convert", "bvector_convert_null"}
     /\ c_string # <<>>) => ConvertedRight


\* The number of distinct bytes of the input.
Distinct == Cardinality(Occurring(input))

\* The number of times the body of the merge loop has run: each run
\* allocates one element that is not a leaf, and nothing else does.
Merges == Cardinality({n \in 1..Len(heap) : heap[n].leaf_node = 0})

\* While the loop runs every iteration has left one element fewer in the
\* list; after it has ended it has run d - 1 times, one element is in the
\* list and the tree has 2d - 1 elements.
MergeLoopCounts ==
    /\ pc = "enc_merge" =>
          /\ hlist_count(distribution_list) = Distinct - Merges
          /\ Len(EncoderChain) = Distinct - Merges
    /\ pc \notin {"enc_count", "enc_merge"} =>
          /\ Merges = Distinct - 1
          /\ hlist_count(distribution_list) = 1
          /\ Len(EncoderChain) = 1
          /\ distribution_tree.root \in 1..Len(heap)
          /\ Cardinality(TreeNodes(heap, distribution_tree.root))
                 = 2 * Distinct - 1

\* C30: for every input of d >= 1 distinct bytes the merge loop, whose
\* iterations each take two elements from the list and put one back, runs
\* exactly d - 1 times and ends with exactly one element in the list, and
\* the finished tree has 2d - 1 elements.
MergeLoop == Distinct >= 1 => MergeLoopCounts

\* The same for two or more distinct bytes.
MergeLoopWhenMerged == Distinct >= 2 => MergeLoopCounts

\* The loop ends: every iteration that stays in the loop leaves one element
\* fewer in the list, which held two or more.
MergeLoopDescends ==
    [][(pc = "enc_merge" /\ pc' = "enc_merge") =>
          /\ hlist_count(distribution_list) >= 2
          /\ hlist_count(distribution_list')
                 = hlist_count(distribution_list) - 1]_vars

=============================================================================
